---------------------------- MODULE Spec2Model ----------------------------
(***************************************************************************)
(* Model of the contact-flow analysis tools:                               *)
(*   - Calculator  (src/calculator.py): the inter-flow dependency graph,   *)
(*     its ordering and its cycle queries;                                 *)
(*   - Ghostwriter (src/ghostwriter.py): the per-flow pass (the action    *)
(*     graph and its export) and the usage aggregation (global view and    *)
(*     per-flow view).                                                     *)
(* networkx and jmespath are libraries: DiGraph keeps nodes and successors *)
(* in insertion order (Python dicts), topological_sort is Kahn's algorithm *)
(* by generations, simple_cycles lists every elementary circuit once, and  *)
(* a jmespath projection over a missing object evaluates to null.          *)
(***************************************************************************)
EXTENDS Integers, Sequences, FiniteSets, TLC

\* ------------------------------------------------------------------ bounds
\* most reference entries in one flow document's ActionMetadata
MaxEntries == 2
\* most add_edge calls made by Calculator.process_flow in one session
MaxRefs == 3

\* ------------------------------------------------------------ Calculator
VARIABLES
    nodes,      \* Calculator.graph: the nodes, in insertion order
    adj,        \* Calculator.graph: per node its successors, in insertion order
    ret,        \* outcome of the latest Calculator call, as its caller sees it
    passed,     \* history: flow names handed to Calculator.process_flow
    refs,       \* history: <<source, target>> of every add_edge call made
    nadds       \* history: number of add_edge calls made so far

calcVars == <<nodes, adj, ret, passed, refs, nadds>>

VARIABLES
    resourceIdNameMap,  \* Ghostwriter.resourceIdNameMap: identifier -> name
    contact_flows,      \* Ghostwriter.contact_flows: "Name||Type" -> flow object
    model,              \* Ghostwriter.model: the global usage views
    gret,               \* outcome of the latest Ghostwriter call
    nrecs,              \* history: number of usage-recording calls made so far
    endNodeIds,         \* ghostwriter.endNodeIds: the module-level list
    nparts              \* history: documents, actions, transitions and calls handed in

ghostVars == <<resourceIdNameMap, contact_flows, model, gret, nrecs, endNodeIds, nparts>>

vars == <<calcVars, ghostVars>>

FlowNames == {"Main", "Greeting", "Billing"}

\* the three fields probed by process_flow, in the order it probes them
FlowFieldLower == "contactFlow"
FlowFieldUpper == "ContactFlow"
ModuleField == "contactFlowModuleName"

\* a contactFlow / ContactFlow value that is an object without "text"
NoText == "<no text>"

\* One ActionMetadata entry carrying one reference field.  Greeting is the
\* module of the session (referenced by module name), Main and Billing are
\* flows (referenced through a {"text": name} object, in either key casing).
EntryShapes ==
    {[field |-> ModuleField, text |-> "Greeting"]}
    \cup {[field |-> f, text |-> t] :
            f \in {FlowFieldLower, FlowFieldUpper}, t \in {"Main", "Billing"}}
    \cup {[field |-> FlowFieldLower, text |-> NoText]}

SeqsUpTo(S, n) == UNION {[1..k -> S] : k \in 0..n}

\* decoded Content of a flow document: with or without a
\* Metadata.ActionMetadata object, whose values are the entries in order
Contents ==
    {[hasMetadata |-> TRUE, entries |-> e] : e \in SeqsUpTo(EntryShapes, MaxEntries)}
    \cup {[hasMetadata |-> FALSE, entries |-> <<>>]}

InSeq(x, s) == \E i \in 1..Len(s) : s[i] = x

IndexOf(x, s) == CHOOSE i \in 1..Len(s) : s[i] = x

NoDup(s) == \A i, j \in 1..Len(s) : s[i] = s[j] => i = j

Range(s) == {s[i] : i \in 1..Len(s)}

\* nx.DiGraph.add_node: a new key at the end of the node dict, else nothing
add_node(g, n) ==
    IF InSeq(n, g.nodes) THEN g
    ELSE [g EXCEPT !.nodes = Append(g.nodes, n)]

\* add_edge re-inserting the successor key on every call
add_edge_again(g, u, v) ==
    LET g1 == add_node(add_node(g, u), v)
    IN  [g1 EXCEPT !.adj[u] = Append(g1.adj[u], v)]

\* nx.DiGraph.add_edge: both endpoints become nodes (u first), and v is a new
\* key at the end of u's successor dict unless it is one already
add_edge(g, u, v) ==
    LET g1 == add_node(add_node(g, u), v)
    IN  IF InSeq(v, g1.adj[u]) THEN g1
        ELSE [g1 EXCEPT !.adj[u] = Append(g1.adj[u], v)]

\* jmespath.search("Metadata.ActionMetadata.*.<field>", content): the values of
\* <field> over the entries, in entry order; null without the object.
\* The result is [isNone, values].
search(field, content) ==
    IF ~content.hasMetadata
    THEN [isNone |-> TRUE, values |-> <<>>]
    ELSE [isNone |-> FALSE,
          values |-> LET hit == SelectSeq(content.entries, LAMBDA e : e.field = field)
                     IN  [i \in 1..Len(hit) |-> hit[i].text]]

RECURSIVE addEntries(_, _, _, _, _)
\* the loop of __process_flow_references over the matches from index i on
addEntries(st, name, type, values, i) ==
    IF i > Len(values) THEN st
    ELSE IF type # "module" /\ values[i] = NoText
         THEN [st EXCEPT !.raised = TRUE]          \* transferToEntry['text']: KeyError
         ELSE addEntries([g |-> add_edge(st.g, name, values[i]),
                          raised |-> FALSE,
                          added |-> Append(st.added, values[i])],
                         name, type, values, i + 1)

\* Calculator.__process_flow_references on the state st = [g, raised, added]
process_flow_references(st, name, type, field, content) ==
    IF st.raised THEN st
    ELSE LET found == search(field, content)
         IN  IF found.isNone
             THEN [st EXCEPT !.raised = TRUE]      \* for ... in None: TypeError
             ELSE addEntries(st, name, type, found.values, 1)

\* process_flow without its add_node call
process_flow_no_node(g, name, content) ==
    LET s0 == [g |-> g, raised |-> FALSE, added |-> <<>>]
        s1 == process_flow_references(s0, name, "flow", FlowFieldLower, content)
        s2 == process_flow_references(s1, name, "flow", FlowFieldUpper, content)
    IN  process_flow_references(s2, name, "module", ModuleField, content)

\* a process_flow that drops the flow's earlier references first
process_flow_replacing(g, name, content) ==
    LET s0 == [g |-> add_node([g EXCEPT !.adj[name] = <<>>], name),
               raised |-> FALSE, added |-> <<>>]
        s1 == process_flow_references(s0, name, "flow", FlowFieldLower, content)
        s2 == process_flow_references(s1, name, "flow", FlowFieldUpper, content)
    IN  process_flow_references(s2, name, "module", ModuleField, content)

\* Calculator.process_flow: the node, then the three probes in order
process_flow(g, name, content) ==
    LET s0 == [g |-> add_node(g, name), raised |-> FALSE, added |-> <<>>]
        s1 == process_flow_references(s0, name, "flow", FlowFieldLower, content)
        s2 == process_flow_references(s1, name, "flow", FlowFieldUpper, content)
    IN  process_flow_references(s2, name, "module", ModuleField, content)

\* G.in_degree(v)
in_degree(g, v) == Cardinality({u \in Range(g.nodes) : InSeq(v, g.adj[u])})

RECURSIVE flatten(_, _, _)
\* the children visited while one generation is processed, in visiting order
flatten(g, gen, i) ==
    IF i > Len(gen) THEN <<>>
    ELSE g.adj[gen[i]] \o flatten(g, gen, i + 1)

RECURSIVE visit(_, _, _, _)
\* indegree_map[child] -= 1 for each child in turn; a child reaching 0 joins
\* the next generation
visit(indeg, zero, children, i) ==
    IF i > Len(children) THEN [indeg |-> indeg, zero |-> zero]
    ELSE LET c == children[i]
             d == indeg[c] - 1
         IN  visit([indeg EXCEPT ![c] = d],
                   IF d = 0 THEN Append(zero, c) ELSE zero,
                   children, i + 1)

RECURSIVE generations(_, _, _, _)
\* nx.topological_generations: Kahn's algorithm; nodes left with a positive
\* in-degree at the end raise NetworkXUnfeasible
generations(g, indeg, zero, out) ==
    IF zero = <<>>
    THEN [order |-> out,
          unfeasible |-> \E v \in Range(g.nodes) : indeg[v] > 0]
    ELSE LET nxt == visit(indeg, <<>>, flatten(g, zero, 1), 1)
         IN  generations(g, nxt.indeg, nxt.zero, out \o zero)

\* list(nx.topological_sort(G)): [order, unfeasible]
topological_sort(g) ==
    generations(g,
                [v \in FlowNames |-> in_degree(g, v)],
                SelectSeq(g.nodes, LAMBDA v : in_degree(g, v) = 0),
                <<>>)

Reverse(s) == [i \in 1..Len(s) |-> s[Len(s) + 1 - i]]

\* the sort's order taken as it comes
sortedGraph_forward(order) == order

\* reversed(list(nx.topological_sort(self.graph)))
sortedGraph(order) == Reverse(order)

\* the loop taken over in_edges: the direct predecessors
dependsOn_in_edges(g, nodeId) ==
    SelectSeq(g.nodes, LAMBDA u : InSeq(nodeId, g.adj[u]))

\* the loop over self.graph.out_edges([nodeId]): the direct successors
dependsOn(g, nodeId) == g.adj[nodeId]

\* what a raising call leaves its caller with
Raised(op) == [op |-> op, status |-> "raised", value |-> <<>>]

Returned(op, v) == [op |-> op, status |-> "ok", value |-> v]

\* a sort that stops at a cycle without raising
sortOutcome_partial(g) ==
    [raised |-> FALSE, order |-> topological_sort(g).order]

\* list(...) of the sort: the whole order, or the exception and no order
sortOutcome(g) ==
    LET t == topological_sort(g)
    IN  IF t.unfeasible THEN [raised |-> TRUE, order |-> <<>>]
        ELSE [raised |-> FALSE, order |-> t.order]

\* Calculator.get_dependencies
get_dependencies(g) ==
    LET t == sortOutcome(g)
    IN  IF t.raised THEN Raised("get_dependencies")
        ELSE LET s == sortedGraph(t.order)
             IN  Returned("get_dependencies",
                          [i \in 1..Len(s) |->
                              [name |-> s[i], dependsOn |-> dependsOn(g, s[i])]])

RECURSIVE pathsFrom_any_start(_, _, _, _)
\* the closed simple paths from the start node through any other nodes
pathsFrom_any_start(g, start, path, k) ==
    LET last == path[Len(path)]
        succ == g.adj[last]
    IN  IF k > Len(succ) THEN <<>>
        ELSE LET c == succ[k]
                 here == IF c = g.nodes[start] /\ Len(path) > 1
                         THEN <<path>>
                         ELSE IF ~InSeq(c, path)
                              THEN pathsFrom_any_start(g, start, Append(path, c), 1)
                              ELSE <<>>
             IN  here \o pathsFrom_any_start(g, start, path, k + 1)

RECURSIVE pathsFrom(_, _, _, _)
\* the closed simple paths that extend path (which starts at node number
\* start) through nodes that come after the start node in node order
pathsFrom(g, start, path, k) ==
    LET last == path[Len(path)]
        succ == g.adj[last]
    IN  IF k > Len(succ) THEN <<>>
        ELSE LET c == succ[k]
                 here == IF c = g.nodes[start] /\ Len(path) > 1
                         THEN <<path>>
                         ELSE IF ~InSeq(c, path) /\ IndexOf(c, g.nodes) > start
                              THEN pathsFrom(g, start, Append(path, c), 1)
                              ELSE <<>>
             IN  here \o pathsFrom(g, start, path, k + 1)

RECURSIVE cyclesFrom(_, _)
\* the circuits of length > 1 whose first node in node order is number i or later
cyclesFrom(g, i) ==
    IF i > Len(g.nodes) THEN <<>>
    ELSE pathsFrom(g, i, <<g.nodes[i]>>, 1) \o cyclesFrom(g, i + 1)

\* self-references left out of the cycle search
selfLoops_ignored(g) == <<>>

\* the self-loops [v], in node order
selfLoops(g) ==
    LET looped == SelectSeq(g.nodes, LAMBDA v : InSeq(v, g.adj[v]))
    IN  [i \in 1..Len(looped) |-> <<looped[i]>>]

\* list(nx.simple_cycles(self.graph)): the self-loops, then every longer
\* elementary circuit, each once, started at its first node in node order
simple_cycles(g) == selfLoops(g) \o cyclesFrom(g, 1)

\* Calculator.flows_contain_cycles
flows_contain_cycles(g) ==
    LET cyclesList == simple_cycles(g)
    IN  Returned("flows_contain_cycles", Len(cyclesList) > 0)

\* Calculator.get_cycles_list
get_cycles_list(g) == Returned("get_cycles_list", simple_cycles(g))

graph == [nodes |-> nodes, adj |-> adj]

CalcInit ==
    /\ nodes = <<>>
    /\ adj = [n \in FlowNames |-> <<>>]
    /\ ret = Returned("init", <<>>)
    /\ passed = {}
    /\ refs = {}
    /\ nadds = 0

\* The orchestrating caller feeds the flows first and queries afterwards; the
\* queries only read the graph, so no graph is lost by this order.
Feeding == ret.op \in {"init", "process_flow"}

\* a caller processes one flow document
ProcessFlow(name, content) ==
    /\ Feeding
    /\ nadds + Len(content.entries) <= MaxRefs
    /\ LET r == process_flow(graph, name, content)
       IN  /\ nodes' = r.g.nodes
           /\ adj' = r.g.adj
           /\ ret' = IF r.raised THEN Raised("process_flow")
                     ELSE Returned("process_flow", <<>>)
           /\ refs' = refs \cup {<<name, r.added[i]>> : i \in 1..Len(r.added)}
           /\ nadds' = nadds + Len(r.added)
    /\ passed' = passed \cup {name}
    /\ UNCHANGED ghostVars

GetDependencies ==
    /\ ret' = get_dependencies(graph)
    /\ UNCHANGED <<nodes, adj, passed, refs, nadds>>
    /\ UNCHANGED ghostVars

FlowsContainCycles ==
    /\ ret' = flows_contain_cycles(graph)
    /\ UNCHANGED <<nodes, adj, passed, refs, nadds>>
    /\ UNCHANGED ghostVars

GetCyclesList ==
    /\ ret' = get_cycles_list(graph)
    /\ UNCHANGED <<nodes, adj, passed, refs, nadds>>
    /\ UNCHANGED ghostVars

CalcNext ==
    \/ \E name \in FlowNames, content \in Contents : ProcessFlow(name, content)
    \/ GetDependencies
    \/ FlowsContainCycles
    \/ GetCyclesList

\* ------------------------------------------------------------ Ghostwriter
\* most usage-recording calls made in one session
MaxRecs == 2
\* most actions in one flow document
MaxActions == 2

\* Strings that the code takes apart or puts together are token sequences.
Prefix == "$.Attributes."
SystemPrefix == "System."

\* attribute references as they occur in action parameters: a bare name, the
\* same name addressed through the prefix, and a name that holds the prefix
\* text after its first character
RawAttrNames == {<<"x">>, <<Prefix, "x">>, <<"x", Prefix, "y">>}

\* a Python dict: a function on the keys present
EmptyDict == [k \in {} |-> 0]

Put(d, k, v) == IF k \in DOMAIN d THEN [d EXCEPT ![k] = v] ELSE d @@ (k :> v)

NoType == "<no Type>"

\* the flow documents' Id, Name and Type: two documents share the name Main
\* (a flow and an untyped module), two share the identifier id-1
FlowHeads ==
    {[Id |-> "id-1", Name |-> "Main", Type |-> "CONTACT_FLOW"],
     [Id |-> "id-2", Name |-> "Main", Type |-> NoType],
     [Id |-> "id-1", Name |-> "Billing", Type |-> "CONTACT_FLOW"]}

\* the Actions entries of a document, by the fields the first pass reads
ActionShapes ==
    {[Type |-> "Compare", Parameters |-> [ComparisonValue |-> v]] : v \in RawAttrNames}
    \cup {[Type |-> "UpdateContactAttributes",
           Parameters |-> [Attributes |-> <<[key |-> <<"x">>, value |-> "v"]>>]]}
    \cup {[Type |-> "UpdateContactData",
           Parameters |-> [items |-> <<[key |-> <<"k">>, value |-> "v"]>>]]}
    \cup {[Type |-> "InvokeLambdaFunction",
           Parameters |-> [LambdaFunctionARN |-> "arn:F1", InvocationTimeLimitSeconds |-> 8]],
          [Type |-> "InvokeLambdaFunction",
           Parameters |-> [InvocationTimeLimitSeconds |-> 8]]}
    \cup {[Type |-> "ConnectParticipantWithLexBot",
           Parameters |-> [LexBot |-> [Region |-> "r", Name |-> "Bot", Alias |-> "a"]]],
          [Type |-> "ConnectParticipantWithLexBot",
           Parameters |-> [LexSessionAttributes |-> "dynamic"]]}
    \cup {[Type |-> "EndFlowExecution", Parameters |-> [Reason |-> "end"]]}

\* Identifier of the action at position i of a document: unique in the document
ActionId(i) == <<"a", i>>

\* the entries with their Identifier and an empty Transitions object
identified(actions) ==
    [i \in 1..Len(actions) |->
        actions[i] @@ [Identifier |-> ActionId(i), Transitions |-> EmptyDict]]

ActionLists == {identified(actions) : actions \in SeqsUpTo(ActionShapes, MaxActions)}

\* the flowNameType key "{Name}||{Type}" of a document, Type defaulted
flowType(head) == IF head.Type = NoType THEN "CONTACT_FLOW_MODULE" ELSE head.Type

flowNameType(head) == <<head.Name, "||", flowType(head)>>

\* contactAttrName.replace("$.Attributes.", "")
stripAttributes(contactAttrName) == SelectSeq(contactAttrName, LAMBDA t : t # Prefix)

\* the append with no membership test
appendAlways(list, flowName) == Append(list, flowName)

\* if flow['Name'] not in list: list.append(flow['Name'])
appendOnce(list, flowName) ==
    IF InSeq(flowName, list) THEN list ELSE Append(list, flowName)

\* the recording that builds the per-flow entry anew on every call
updateContactAttrUsage_fresh(st, contactAttrName, key, usage) ==
    LET name == stripAttributes(contactAttrName)
        flowContactAttrs == st.flows[key].contactAttributes
    IN  [st EXCEPT !.flows[key].contactAttributes =
                       Put(flowContactAttrs, name,
                           [contactAttrName |-> name,
                            usedInFlow |-> usage = "used",
                            updatedInFlow |-> usage = "updated"]),
                   !.recs = st.recs + 1]

\* Ghostwriter.updateContactAttrUsage on st = [model, flows, ...]; the flow
\* object is the one registered under key
updateContactAttrUsage(st, contactAttrName, key, usage) ==
    LET name == stripAttributes(contactAttrName)
        flowName == st.flows[key].Name
        modelAttrs == st.model.contactAttributes
        created == IF name \in DOMAIN modelAttrs THEN modelAttrs
                   ELSE Put(modelAttrs, name, [updatedInFlow |-> <<>>, usedInFlow |-> <<>>])
        e == created[name]
        e1 == IF usage = "used"
              THEN [e EXCEPT !.usedInFlow = appendOnce(e.usedInFlow, flowName)] ELSE e
        e2 == IF usage = "updated"
              THEN [e1 EXCEPT !.updatedInFlow = appendOnce(e1.updatedInFlow, flowName)] ELSE e1
        flowContactAttrs == st.flows[key].contactAttributes
        f == IF name \in DOMAIN flowContactAttrs THEN flowContactAttrs[name]
             ELSE [contactAttrName |-> name, usedInFlow |-> FALSE, updatedInFlow |-> FALSE]
        f1 == IF usage = "used" THEN [f EXCEPT !.usedInFlow = TRUE] ELSE f
        f2 == IF usage = "updated" THEN [f1 EXCEPT !.updatedInFlow = TRUE] ELSE f1
    IN  [st EXCEPT !.model.contactAttributes = Put(created, name, e2),
                   !.flows[key].contactAttributes = Put(flowContactAttrs, name, f2),
                   !.recs = st.recs + 1]

\* Ghostwriter.updateLambdaFunctionUsage
updateLambdaFunctionUsage(st, functionName, key) ==
    LET flowName == st.flows[key].Name
        modelAttrs == st.model.lambdaFunctions
        created == IF functionName \in DOMAIN modelAttrs THEN modelAttrs
                   ELSE Put(modelAttrs, functionName, [usedInFlow |-> <<>>])
        e == [usedInFlow |-> appendOnce(created[functionName].usedInFlow, flowName)]
        lambdaFunctions == st.flows[key].lambdaFunctions
    IN  [st EXCEPT !.model.lambdaFunctions = Put(created, functionName, e),
                   !.flows[key].lambdaFunctions =
                       IF functionName \in DOMAIN lambdaFunctions THEN lambdaFunctions
                       ELSE Put(lambdaFunctions, functionName,
                                [functionName |-> functionName, usedInFlow |-> TRUE]),
                   !.recs = st.recs + 1]

\* Ghostwriter.updateLexBotUsage
updateLexBotUsage(st, lexBotName, key) ==
    LET flowName == st.flows[key].Name
        modelAttrs == st.model.lexBots
        created == IF lexBotName \in DOMAIN modelAttrs THEN modelAttrs
                   ELSE Put(modelAttrs, lexBotName, [usedInFlow |-> <<>>])
        e == [usedInFlow |-> appendOnce(created[lexBotName].usedInFlow, flowName)]
        lexBots == st.flows[key].lexBots
    IN  [st EXCEPT !.model.lexBots = Put(created, lexBotName, e),
                   !.flows[key].lexBots =
                       IF lexBotName \in DOMAIN lexBots THEN lexBots
                       ELSE Put(lexBots, lexBotName,
                                [lexBotName |-> lexBotName, usedInFlow |-> TRUE]),
                   !.recs = st.recs + 1]

RECURSIVE updateEach(_, _, _, _, _)
\* the loop over the items of an attribute dict: one "updated" record per key
updateEach(st, items, keyPrefix, key, i) ==
    IF i > Len(items) THEN st
    ELSE updateEach(updateContactAttrUsage(st, keyPrefix \o items[i].key, key, "updated"),
                    items, keyPrefix, key, i + 1)

\* "{0}:{1}:{2}".format(Region, Name, Alias)
compositeName(lexParams) ==
    <<lexParams.Region, ":", lexParams.Name, ":", lexParams.Alias>>

KeyError(st) == [st EXCEPT !.raised = TRUE]

\* one turn of the first loop of process_flow: the usage an action records,
\* or the KeyError of a parameter its type requires
nodeOf(st, actionDict, key) ==
    LET t_type == actionDict.Type
        params == actionDict.Parameters
    IN  CASE t_type = "Compare" ->
                IF "ComparisonValue" \in DOMAIN params
                THEN updateContactAttrUsage(st, params.ComparisonValue, key, "used")
                ELSE KeyError(st)
          [] t_type = "InvokeFlowModule" ->
                IF "FlowModuleId" \in DOMAIN params THEN st ELSE KeyError(st)
          [] t_type = "UpdateContactAttributes" ->
                IF "Attributes" \in DOMAIN params
                THEN updateEach(st, params.Attributes, <<>>, key, 1)
                ELSE KeyError(st)
          [] t_type = "UpdateContactData" ->
                updateEach(st, params.items, <<SystemPrefix>>, key, 1)
          [] t_type = "InvokeLambdaFunction" ->
                IF /\ "LambdaFunctionARN" \in DOMAIN params
                   /\ "InvocationTimeLimitSeconds" \in DOMAIN params
                THEN updateLambdaFunctionUsage(st, params.LambdaFunctionARN, key)
                ELSE KeyError(st)
          [] t_type = "ConnectParticipantWithLexBot" ->
                IF "LexBot" \in DOMAIN params
                THEN updateLexBotUsage(st, compositeName(params.LexBot), key)
                ELSE st
          [] OTHER -> st

RECURSIVE nodePass(_, _, _, _)
\* for actionDict in actionsList, until an action raises
nodePass(st, actionsList, key, i) ==
    IF i > Len(actionsList) \/ st.raised THEN st
    ELSE nodePass(nodeOf(st, actionsList[i], key), actionsList, key, i + 1)

\* the flow object as process_flow registers it: Type defaulted, the three
\* per-flow views emptied
registered(head) ==
    [Id |-> head.Id, Name |-> head.Name, Type |-> flowType(head),
     contactAttributes |-> EmptyDict,
     lambdaFunctions |-> EmptyDict,
     lexBots |-> EmptyDict]

\* endNodeTypes as Python reads the list: the second and third literal have
\* no comma between them and are one string
endNodeTypes ==
    {"TransferContactToQueue", "EndFlowExecutionDisconnectParticipant",
     "CreateCallbackContact"}

includeAllErrorTypes_off == FALSE

includeAllErrorTypes == TRUE

\* additional_data["label"] of an action that the first loop has accepted
labelOf(idmap, actionDict) ==
    LET t_type == actionDict.Type
        params == actionDict.Parameters
    IN  CASE t_type = "TransferContactToQueue" ->
                <<t_type, "\n", actionDict.Identifier>>
          [] t_type = "Compare" -> <<t_type, "\n", params.ComparisonValue>>
          [] t_type = "InvokeFlowModule" ->
                <<t_type, "\n",
                  IF params.FlowModuleId \in DOMAIN idmap
                  THEN idmap[params.FlowModuleId] ELSE params.FlowModuleId>>
          [] t_type = "InvokeLambdaFunction" -> <<t_type, "\n", params.LambdaFunctionARN>>
          [] t_type = "ConnectParticipantWithLexBot" /\ "LexBot" \in DOMAIN params ->
                <<t_type, "\n", compositeName(params.LexBot)>>
          [] OTHER -> <<t_type>>

\* the MultiDiGraph after the first loop: graph.add_node(Identifier,
\* data=actionDict, label=...) per action, in document order
nodesOf(idmap, actionsList) ==
    [nodes |-> [i \in 1..Len(actionsList) |->
                   [id |-> actionsList[i].Identifier,
                    data |-> actionsList[i],
                    label |-> labelOf(idmap, actionsList[i])]],
     edges |-> <<>>]

HasNode(g, v) == \E i \in 1..Len(g.nodes) : g.nodes[i].id = v

\* add_edge of a DiGraph: one edge per pair, a second call updates it
DiGraph_add_edge(g, u, v, attrs) ==
    LET edge == [u |-> u, v |-> v, key |-> 0] @@ attrs
    IN  [nodes |-> IF HasNode(g, v) THEN g.nodes ELSE Append(g.nodes, [id |-> v]),
         edges |-> IF \E i \in 1..Len(g.edges) : g.edges[i].u = u /\ g.edges[i].v = v
                   THEN [i \in 1..Len(g.edges) |->
                            IF g.edges[i].u = u /\ g.edges[i].v = v
                            THEN edge ELSE g.edges[i]]
                   ELSE Append(g.edges, edge)]

\* graph.add_edge(u, v, **attrs) of the MultiDiGraph: a new edge under the
\* next free key of the pair; a target that is no node yet becomes one
MultiDiGraph_add_edge(g, u, v, attrs) ==
    LET key == Cardinality({i \in 1..Len(g.edges) : g.edges[i].u = u /\ g.edges[i].v = v})
    IN  [nodes |-> IF HasNode(g, v) THEN g.nodes ELSE Append(g.nodes, [id |-> v]),
         edges |-> Append(g.edges, [u |-> u, v |-> v, key |-> key] @@ attrs)]

\* a default edge for every action that names a NextAction
defaultEdges_any_type(nodeData) ==
    IF "NextAction" \in DOMAIN nodeData.Transitions
    THEN <<[v |-> nodeData.Transitions.NextAction,
            attrs |-> [type |-> "Default", isError |-> FALSE]]>>
    ELSE <<>>

\* the default edge of an action, none for Compare and GetParticipantInput
defaultEdges(nodeData) ==
    IF /\ "NextAction" \in DOMAIN nodeData.Transitions
       /\ nodeData.Type \notin {"Compare", "GetParticipantInput"}
    THEN <<[v |-> nodeData.Transitions.NextAction,
            attrs |-> [type |-> "Default", isError |-> FALSE]]>>
    ELSE <<>>

\* the error edges that pass the switch given as allTypes
errorEdgesUnder(allTypes, nodeData) ==
    IF "Errors" \in DOMAIN nodeData.Transitions
    THEN LET included == SelectSeq(nodeData.Transitions.Errors,
                                   LAMBDA error :
                                       \/ error.ErrorType \in {"NoMatchingCondition"}
                                       \/ allTypes)
         IN  [i \in 1..Len(included) |->
                 [v |-> included[i].NextAction,
                  attrs |-> [type |-> included[i].ErrorType,
                             isError |-> TRUE,
                             label |-> included[i].ErrorType]]]
    ELSE <<>>

errorEdges_matching_only(nodeData) == errorEdgesUnder(includeAllErrorTypes_off, nodeData)

\* one edge per entry of Transitions.Errors
errorEdges(nodeData) == errorEdgesUnder(includeAllErrorTypes, nodeData)

\* one edge per entry of Transitions.Conditions
conditionEdges(nodeData) ==
    IF "Conditions" \in DOMAIN nodeData.Transitions
    THEN LET conditions == nodeData.Transitions.Conditions
         IN  [i \in 1..Len(conditions) |->
                 [v |-> conditions[i].NextAction,
                  attrs |-> [type |-> "Condition",
                             isError |-> FALSE,
                             label |-> <<conditions[i].Condition.Operator, " ",
                                         conditions[i].Condition.Operands>>,
                             parameters |-> IF "Parameters" \in DOMAIN nodeData
                                            THEN nodeData.Parameters ELSE <<>>,
                             condition |-> conditions[i].Condition]]]
    ELSE <<>>

RECURSIVE addEdges(_, _, _, _)
\* the add_edge calls of one node of the edge loop, in order
addEdges(g, u, edges, i) ==
    IF i > Len(edges) THEN g
    ELSE addEdges(MultiDiGraph_add_edge(g, u, edges[i].v, edges[i].attrs), u, edges, i + 1)

\* if connectNodeType in endNodeTypes: endNodeIds.append(Identifier)
endNodeIds_append(ends, nodeData) ==
    IF nodeData.Type \in endNodeTypes THEN Append(ends, nodeData.Identifier) ELSE ends

RECURSIVE edgePass(_, _, _)
\* for node, nodeData in graph.nodes.items(), on r = [graph, ends, raised]
\* with n nodes when the loop began.  An add_edge to an identifier that is no
\* node adds one, and the next step of the iteration raises RuntimeError
\* (dictionary changed size during iteration); the handler re-raises.
edgePass(r, n, i) ==
    IF r.raised THEN r
    ELSE IF Len(r.graph.nodes) # n THEN [r EXCEPT !.raised = TRUE]
    ELSE IF i > n THEN r
    ELSE LET nodeData == r.graph.nodes[i].data
             edges == defaultEdges(nodeData) \o errorEdges(nodeData)
                          \o conditionEdges(nodeData)
         IN  edgePass([graph |-> addEdges(r.graph, nodeData.Identifier, edges, 1),
                       ends |-> endNodeIds_append(r.ends, nodeData),
                       raised |-> FALSE],
                      n, i + 1)

\* str(value) of a bool
str(b) == IF b THEN "True" ELSE "False"

\* Ghostwriter.get_raw_dot: the listing of the nodes and of the edges, every
\* attribute value as its text
get_raw_dot(g) ==
    [nodes |-> g.nodes,
     edges |-> [i \in 1..Len(g.edges) |-> [g.edges[i] EXCEPT !.isError = str(@)]]]

\* a registration that keeps the name an identifier already has
registerIdName_keep_first(idmap, head) ==
    IF head.Id \in DOMAIN idmap THEN idmap ELSE Put(idmap, head.Id, head.Name)

\* self.resourceIdNameMap[flow["Id"]] = flow["Name"]
registerIdName(idmap, head) == Put(idmap, head.Id, head.Name)

\* the exports of the registry with their labels read anew through idmap
relabelled(flows, idmap) ==
    [k \in DOMAIN flows |->
        IF "graphAsDot" \in DOMAIN flows[k]
        THEN LET ns == flows[k].graphAsDot.nodes
             IN  [flows[k] EXCEPT !.graphAsDot.nodes =
                     [i \in 1..Len(ns) |->
                         IF "label" \in DOMAIN ns[i]
                         THEN [ns[i] EXCEPT !.label = labelOf(idmap, ns[i].data)]
                         ELSE ns[i]]]
        ELSE flows[k]]

\* a process_flow that brings the labels of the earlier exports up to date
Ghostwriter_process_flow_relabelling(st, head, actionsList) ==
    LET key == flowNameType(head)
        s0 == [st EXCEPT !.idmap = registerIdName(st.idmap, head),
                         !.flows = Put(st.flows, key, registered(head))]
        s1 == nodePass(s0, actionsList, key, 1)
        r == edgePass([graph |-> nodesOf(s0.idmap, actionsList),
                       ends |-> st.ends, raised |-> FALSE],
                      Len(actionsList), 1)
    IN  IF s1.raised THEN s1
        ELSE IF r.raised THEN [s1 EXCEPT !.raised = TRUE, !.ends = r.ends]
        ELSE [s1 EXCEPT !.ends = r.ends,
                        !.flows = relabelled(
                            [@ EXCEPT ![key] = @ @@ [graphAsDot |-> get_raw_dot(r.graph)]],
                            s1.idmap)]

\* Ghostwriter.process_flow: the identifier table, the registry, the emptied
\* per-flow views, the actions in order, then the edges and the export
Ghostwriter_process_flow(st, head, actionsList) ==
    LET key == flowNameType(head)
        s0 == [st EXCEPT !.idmap = registerIdName(st.idmap, head),
                         !.flows = Put(st.flows, key, registered(head))]
        s1 == nodePass(s0, actionsList, key, 1)
        r == edgePass([graph |-> nodesOf(s0.idmap, actionsList),
                       ends |-> st.ends, raised |-> FALSE],
                      Len(actionsList), 1)
    IN  IF s1.raised THEN s1
        ELSE IF r.raised THEN [s1 EXCEPT !.raised = TRUE, !.ends = r.ends]
        ELSE [s1 EXCEPT !.ends = r.ends,
                        !.flows[key] = @ @@ [graphAsDot |-> get_raw_dot(r.graph)]]

ghost == [idmap |-> resourceIdNameMap, flows |-> contact_flows, model |-> model,
          raised |-> FALSE, recs |-> nrecs, ends |-> endNodeIds]

GhostInit ==
    /\ resourceIdNameMap = EmptyDict
    /\ contact_flows = EmptyDict
    /\ model = [contactAttributes |-> EmptyDict,
                lambdaFunctions |-> EmptyDict,
                lexBots |-> EmptyDict]
    /\ gret = Returned("init", <<>>)
    /\ nrecs = 0
    /\ endNodeIds = <<>>
    /\ nparts = 0

Init == CalcInit /\ GhostInit

\* the state a Ghostwriter call leaves, and its outcome under the name op
Leaves(r, op) ==
    /\ resourceIdNameMap' = r.idmap
    /\ contact_flows' = r.flows
    /\ model' = r.model
    /\ nrecs' = r.recs
    /\ endNodeIds' = r.ends
    /\ gret' = IF r.raised THEN Raised(op) ELSE Returned(op, <<>>)
    /\ UNCHANGED calcVars

\* a caller processes one flow document
GhostProcessFlow(head, actionsList) ==
    /\ nrecs + Len(actionsList) <= MaxRecs
    /\ Leaves(Ghostwriter_process_flow(ghost, head, actionsList), "process_flow")

\* a caller records usage on a flow object it has had processed
UpdateContactAttrUsage(contactAttrName, key, usage) ==
    /\ key \in DOMAIN contact_flows
    /\ nrecs < MaxRecs
    /\ Leaves(updateContactAttrUsage(ghost, contactAttrName, key, usage),
              "updateContactAttrUsage")

UpdateLambdaFunctionUsage(functionName, key) ==
    /\ key \in DOMAIN contact_flows
    /\ nrecs < MaxRecs
    /\ Leaves(updateLambdaFunctionUsage(ghost, functionName, key),
              "updateLambdaFunctionUsage")

UpdateLexBotUsage(lexBotName, key) ==
    /\ key \in DOMAIN contact_flows
    /\ nrecs < MaxRecs
    /\ Leaves(updateLexBotUsage(ghost, lexBotName, key), "updateLexBotUsage")

FlowKeys == {flowNameType(h) : h \in FlowHeads}

FunctionArns == {"arn:F1"}

BotNames == {compositeName([Region |-> "r", Name |-> "Bot", Alias |-> "a"])}

\* most documents, actions and transition entries handed in in one session
\* that builds action graphs
MaxParts == 6
\* most documents, actions and recording calls handed in in one session that
\* aggregates usage
MaxWork == 3

entriesOf(transitions) ==
    (IF "NextAction" \in DOMAIN transitions THEN 1 ELSE 0)
    + (IF "Errors" \in DOMAIN transitions THEN Len(transitions.Errors) ELSE 0)
    + (IF "Conditions" \in DOMAIN transitions THEN Len(transitions.Conditions) ELSE 0)

RECURSIVE partsFrom(_, _)
partsFrom(actionsList, i) ==
    IF i > Len(actionsList) THEN 0
    ELSE 1 + entriesOf(actionsList[i].Transitions) + partsFrom(actionsList, i + 1)

\* the document, its actions and their transition entries
parts(actionsList) == 1 + partsFrom(actionsList, 1)

\* the session hands in n more parts and stays within its bound
HandsIn(n, bound) ==
    /\ nparts + n <= bound
    /\ nparts' = nparts + n

GhostNext ==
    \/ \E head \in FlowHeads, actionsList \in ActionLists :
          HandsIn(1 + Len(actionsList), MaxWork) /\ GhostProcessFlow(head, actionsList)
    \/ \E a \in RawAttrNames, key \in FlowKeys, usage \in {"used", "updated"} :
          HandsIn(1, MaxWork) /\ UpdateContactAttrUsage(a, key, usage)
    \/ \E f \in FunctionArns, key \in FlowKeys :
          HandsIn(1, MaxWork) /\ UpdateLambdaFunctionUsage(f, key)
    \/ \E b \in BotNames, key \in FlowKeys :
          HandsIn(1, MaxWork) /\ UpdateLexBotUsage(b, key)

\* ------------------------------------------------- documents with transitions
\* most entries in one Errors or Conditions list
MaxTransitions == 2

ErrorTypes == {"NoMatchingError", "NoMatchingCondition"}

ConditionShapes == {[Operator |-> "Equals", Operands |-> <<o>>] : o \in {"1", "2"}}

ErrorEntries(t) == {[ErrorType |-> e, NextAction |-> t] : e \in ErrorTypes}

ConditionEntries(t) == {[NextAction |-> t, Condition |-> c] : c \in ConditionShapes}

SomeUpTo(S, n) == SeqsUpTo(S, n) \ {<<>>}

\* Transitions objects whose entries lead to the action t
TransitionShapes(t) ==
    {EmptyDict, [NextAction |-> t]}
    \cup {[Errors |-> es] : es \in SomeUpTo(ErrorEntries(t), MaxTransitions)}
    \cup {[NextAction |-> t, Errors |-> es] : es \in SomeUpTo(ErrorEntries(t), MaxTransitions)}
    \cup {[Conditions |-> cs] : cs \in SomeUpTo(ConditionEntries(t), MaxTransitions)}
    \cup {[NextAction |-> t, Conditions |-> cs] :
             cs \in SomeUpTo(ConditionEntries(t), MaxTransitions)}
    \cup {[NextAction |-> t, Errors |-> <<e>>, Conditions |-> <<c>>] :
             e \in ErrorEntries(t), c \in ConditionEntries(t)}

GraphTypes ==
    {"MessageParticipant", "Compare", "GetParticipantInput", "InvokeFlowModule",
     "TransferContactToQueue", "EndFlowExecution", "DisconnectParticipant",
     "CreateCallbackContact"}

\* the Parameters the first loop requires of a type
parametersOf(type) ==
    CASE type = "Compare" -> [ComparisonValue |-> <<"x">>]
      [] type = "InvokeFlowModule" -> [FlowModuleId |-> "id-1"]
      [] OTHER -> EmptyDict

act(i, type, transitions) ==
    [Identifier |-> ActionId(i), Type |-> type,
     Parameters |-> parametersOf(type), Transitions |-> transitions]

\* Documents for the action graph: the empty one; one action of any type
\* that leads nowhere, to itself, to itself with a failure exit, or to an
\* action the document does not have; a message with any transitions to a
\* second, closing action; a message that leads on to a second one whose
\* failures lead back.
GraphDocs ==
    {<<>>}
    \cup {<<act(1, type, t)>> :
             type \in GraphTypes,
             t \in {EmptyDict, [NextAction |-> ActionId(1)],
                    [NextAction |-> ActionId(1),
                     Errors |-> <<[ErrorType |-> "NoMatchingError",
                                   NextAction |-> ActionId(1)]>>]}}
    \cup {<<act(1, "MessageParticipant", [NextAction |-> ActionId(2)])>>}
    \cup {<<act(1, "MessageParticipant", t), act(2, "DisconnectParticipant", EmptyDict)>> :
             t \in TransitionShapes(ActionId(2))}
    \cup {<<act(1, "MessageParticipant", [NextAction |-> ActionId(2)]),
             act(2, "MessageParticipant", [Errors |-> es])>> :
             es \in SomeUpTo(ErrorEntries(ActionId(1)), MaxTransitions)}

\* Ghostwriter() as another session creates it
created ==
    [idmap |-> EmptyDict, flows |-> EmptyDict,
     model |-> [contactAttributes |-> EmptyDict,
                lambdaFunctions |-> EmptyDict,
                lexBots |-> EmptyDict],
     raised |-> FALSE, recs |-> 0]

\* another session processes a document through a Ghostwriter of its own:
\* its instance dies with it, what it did to the module stays
OtherSessionProcessFlow(head, actionsList) ==
    /\ endNodeIds' =
          Ghostwriter_process_flow(created @@ [ends |-> endNodeIds], head, actionsList).ends
    /\ UNCHANGED <<resourceIdNameMap, contact_flows, model, gret, nrecs>>
    /\ UNCHANGED calcVars

GraphNext ==
    \/ \E head \in FlowHeads, actionsList \in GraphDocs :
          HandsIn(parts(actionsList), MaxParts) /\ GhostProcessFlow(head, actionsList)
    \/ \E head \in FlowHeads, actionsList \in GraphDocs :
          HandsIn(parts(actionsList), MaxParts) /\ OtherSessionProcessFlow(head, actionsList)

CalcSpec == Init /\ [][CalcNext]_vars

GhostSpec == Init /\ [][GhostNext]_vars

GraphSpec == Init /\ [][GraphNext]_vars

\* ------------------------------------------------- dependency-graph claims

\* the edge relation of the graph
Edges == {e \in FlowNames \X FlowNames : InSeq(e[2], adj[e[1]])}

\* pairs <<u, v>> with a walk of at least one edge from u to v
RECURSIVE Closure(_, _)
Closure(R, n) ==
    IF n = 0 THEN R
    ELSE LET C == Closure(R, n - 1)
         IN  C \cup {p \in FlowNames \X FlowNames :
                        \E m \in FlowNames : <<p[1], m>> \in C /\ <<m, p[2]>> \in R}

Reach == Closure(Edges, Cardinality(FlowNames))

\* the graph has a directed cycle (a self-reference is one)
HasCycle == \E v \in FlowNames : <<v, v>> \in Reach

\* position of a flow's entry in the list get_dependencies returned
Pos(n) == CHOOSE i \in 1..Len(ret.value) : ret.value[i].name = n

GotDependencies == ret.op = "get_dependencies" /\ ret.status = "ok"

\* C1: on an acyclic graph get_dependencies returns one entry per node, and
\* for every reference (s, t) the entry of t comes before the entry of s.
C1_TargetsBeforeReferrers ==
    (ret.op = "get_dependencies" /\ ~HasCycle) =>
        /\ ret.status = "ok"
        /\ Len(ret.value) = Len(nodes)
        /\ {ret.value[i].name : i \in 1..Len(ret.value)} = Range(nodes)
        /\ \A e \in refs : Pos(e[2]) < Pos(e[1])

\* an order was returned for a chain s -> t -> u of references
C1_Witness ==
    /\ GotDependencies
    /\ \E s, t, u \in FlowNames : <<s, t>> \in refs /\ <<t, u>> \in refs

\* C4: on a graph with a directed cycle get_dependencies raises and hands
\* back no ordering at all.
C4_CycleFailsOrdering ==
    (ret.op = "get_dependencies" /\ HasCycle) =>
        (ret.status = "raised" /\ ret.value = <<>>)

\* get_dependencies was called on a graph with a cycle through two flows
C4_Witness ==
    /\ ret.op = "get_dependencies"
    /\ \E u, v \in FlowNames : u # v /\ <<u, v>> \in Edges /\ <<v, u>> \in Reach

\* c is a sequence of pairwise distinct flows, each with an edge to the next
\* and the last with an edge to the first
IsSimpleCycle(c) ==
    /\ Len(c) >= 1
    /\ NoDup(c)
    /\ \A i \in 1..Len(c) : <<c[i], c[(i % Len(c)) + 1]>> \in Edges

\* C5: flows_contain_cycles is true iff get_cycles_list is non-empty iff the
\* graph has a directed cycle (self-references included), and every cycle
\* returned is a sequence of distinct flows closed by edges of the graph.
C5_CycleQueriesAgree ==
    /\ ret.op = "flows_contain_cycles" =>
          /\ ret.value = HasCycle
          /\ ret.value = (Len(get_cycles_list(graph).value) > 0)
    /\ ret.op = "get_cycles_list" =>
          /\ (Len(ret.value) > 0) = HasCycle
          /\ \A i \in 1..Len(ret.value) : IsSimpleCycle(ret.value[i])

\* flows_contain_cycles answered true on a graph whose only cycle is a
\* self-reference
C5_Witness ==
    /\ ret.op = "flows_contain_cycles"
    /\ ret.value
    /\ \A e \in Edges : e[1] = e[2]

\* every simple cycle of the graph, in every rotation
AllSimpleCycles ==
    {c \in SeqsUpTo(FlowNames, Cardinality(FlowNames)) : IsSimpleCycle(c)}

Rotation(c, d) ==
    /\ Len(c) = Len(d)
    /\ \E k \in 0..(Len(c) - 1) :
          \A i \in 1..Len(c) : d[i] = c[((i - 1 + k) % Len(c)) + 1]

ThreeCycle ==
    {<<"Main", "Greeting">>, <<"Greeting", "Billing">>, <<"Billing", "Main">>}

\* C6: get_cycles_list returns every simple cycle exactly once up to
\* rotation and nothing else; for exactly the references Main -> Greeting,
\* Greeting -> Billing, Billing -> Main it returns one cycle, a rotation of
\* [Main, Greeting, Billing].
C6_EverySimpleCycleOnce ==
    ret.op = "get_cycles_list" =>
        /\ \A i \in 1..Len(ret.value) : ret.value[i] \in AllSimpleCycles
        /\ \A c \in AllSimpleCycles :
              Cardinality({i \in 1..Len(ret.value) : Rotation(c, ret.value[i])}) = 1
        /\ Edges = ThreeCycle =>
              /\ Len(ret.value) = 1
              /\ Rotation(<<"Main", "Greeting", "Billing">>, ret.value[1])

\* the cycle list of the three-flow ring was returned
C6_Witness == ret.op = "get_cycles_list" /\ Edges = ThreeCycle

NoDupEdges(a) == \A n \in FlowNames : NoDup(a[n])

\* C7: a reference that already exists leaves one edge and the source's
\* dependsOn list as it was: no successor list ever holds a target twice, and
\* a call that adds no new target to a source leaves its list unchanged.
C7_DuplicateReferenceIsNoOp ==
    [][/\ NoDupEdges(adj')
       /\ \A n \in FlowNames :
             Range(adj'[n]) = Range(adj[n]) =>
                 dependsOn([nodes |-> nodes', adj |-> adj'], n) = dependsOn(graph, n)]_vars

\* more add_edge calls were made than there are edges: one repeated a reference
C7_Witness ==
    /\ ret = Returned("process_flow", <<>>)
    /\ nadds > Cardinality(Edges)
    /\ Edges # {}

\* C8: the node set is the flow names handed to process_flow together with
\* the reference targets added, also after failed calls, and every edge
\* joins two nodes.
C8_NodeSetIsFlowsAndTargets ==
    /\ Range(nodes) = passed \cup {e[2] : e \in refs}
    /\ NoDup(nodes)
    /\ \A e \in Edges : e[1] \in Range(nodes) /\ e[2] \in Range(nodes)

\* a failed call left its flow and an earlier target in the node set
C8_Witness ==
    /\ ret = Raised("process_flow")
    /\ \E n \in Range(nodes) : n \notin passed
    /\ Cardinality(passed) >= 2

\* Main's document of the scenario: Greeting through the module-reference
\* field and Billing through a flow-reference field, in either entry order
ScenarioContents ==
    {[hasMetadata |-> TRUE, entries |-> e] : e \in
        {<<[field |-> ModuleField, text |-> "Greeting"], [field |-> f, text |-> "Billing"]>> :
            f \in {FlowFieldLower, FlowFieldUpper}}
        \cup
        {<<[field |-> f, text |-> "Billing"], [field |-> ModuleField, text |-> "Greeting"]>> :
            f \in {FlowFieldLower, FlowFieldUpper}}}

FirstScenarioStep(c) == adj["Main"] = <<>> /\ ProcessFlow("Main", c)

IsPrefix(s, t) == Len(s) <= Len(t) /\ \A i \in 1..Len(s) : s[i] = t[i]

\* each returned dependsOn list is exactly the flow's own reference targets
DirectTargetsOnly ==
    GotDependencies =>
        \A i \in 1..Len(ret.value) :
            /\ NoDup(ret.value[i].dependsOn)
            /\ Range(ret.value[i].dependsOn) =
                  {e[2] : e \in {r \in refs : r[1] = ret.value[i].name}}

\* C9 as stated: Main's scenario document yields dependsOn = [Greeting, Billing].
C9_Original ==
    [][\A c \in ScenarioContents :
          FirstScenarioStep(c) =>
              dependsOn([nodes |-> nodes', adj |-> adj'], "Main") = <<"Greeting", "Billing">>]_vars

\* C9 amended: dependsOn holds only direct targets, earlier discovered ones
\* first, and Main's scenario document yields [Billing, Greeting]: the
\* flow-reference fields are probed before the module-reference field.
C9_DirectTargetsInProbeOrder ==
    /\ []DirectTargetsOnly
    /\ [][/\ \A n \in FlowNames :
                IsPrefix(dependsOn(graph, n), dependsOn([nodes |-> nodes', adj |-> adj'], n))
          /\ \A c \in ScenarioContents :
                FirstScenarioStep(c) =>
                    dependsOn([nodes |-> nodes', adj |-> adj'], "Main") = <<"Billing", "Greeting">>]_vars

\* get_dependencies returned Main's two direct targets while Billing has a
\* reference of its own
C9_Witness ==
    /\ GotDependencies
    /\ \E i \in 1..Len(ret.value) :
          /\ ret.value[i].name = "Main"
          /\ ret.value[i].dependsOn = <<"Billing", "Greeting">>
    /\ <<"Billing", "Greeting">> \in refs

\* ------------------------------------------------------------ usage claims

Listed(d, k, field, flowName) == k \in DOMAIN d /\ InSeq(flowName, d[k][field])

Flagged(d, k, field) == k \in DOMAIN d /\ d[k][field]

\* C2 as stated: for every registered flow and every resource, the flow's
\* name is in the resource's global usage list iff the flow's own view marks
\* the resource (used / updated for an attribute, present for a function or bot).
C2_Original ==
    \A key \in DOMAIN contact_flows :
        LET flow == contact_flows[key]
            attrs == DOMAIN model.contactAttributes \cup DOMAIN flow.contactAttributes
            funcs == DOMAIN model.lambdaFunctions \cup DOMAIN flow.lambdaFunctions
            bots == DOMAIN model.lexBots \cup DOMAIN flow.lexBots
        IN  /\ \A a \in attrs, kind \in {"usedInFlow", "updatedInFlow"} :
                  Listed(model.contactAttributes, a, kind, flow.Name)
                      <=> Flagged(flow.contactAttributes, a, kind)
            /\ \A f \in funcs :
                  Listed(model.lambdaFunctions, f, "usedInFlow", flow.Name)
                      <=> Flagged(flow.lambdaFunctions, f, "usedInFlow")
            /\ \A b \in bots :
                  Listed(model.lexBots, b, "usedInFlow", flow.Name)
                      <=> Flagged(flow.lexBots, b, "usedInFlow")

\* C3 as stated: a process_flow call that raises leaves the global usage
\* views, the flow registry and the identifier table as they were.
C3_Original ==
    [][gret' = Raised("process_flow") =>
          /\ model' = model
          /\ contact_flows' = contact_flows
          /\ resourceIdNameMap' = resourceIdNameMap]_vars

\* every position of every global usage list
GlobalEntries ==
    UNION {{<<kind, a, i>> : i \in 1..Len(model.contactAttributes[a][kind])} :
              a \in DOMAIN model.contactAttributes, kind \in {"usedInFlow", "updatedInFlow"}}
    \cup UNION {{<<"lambda", f, i>> : i \in 1..Len(model.lambdaFunctions[f].usedInFlow)} :
                   f \in DOMAIN model.lambdaFunctions}
    \cup UNION {{<<"lex", b, i>> : i \in 1..Len(model.lexBots[b].usedInFlow)} :
                   b \in DOMAIN model.lexBots}

NoFlowTwice(m) ==
    /\ \A a \in DOMAIN m.contactAttributes :
          NoDup(m.contactAttributes[a].usedInFlow) /\ NoDup(m.contactAttributes[a].updatedInFlow)
    /\ \A f \in DOMAIN m.lambdaFunctions : NoDup(m.lambdaFunctions[f].usedInFlow)
    /\ \A b \in DOMAIN m.lexBots : NoDup(m.lexBots[b].usedInFlow)

KindField(usage) == IF usage = "used" THEN "usedInFlow" ELSE "updatedInFlow"

\* C10: no global usage list ever holds a flow name twice, and recording a
\* (resource, flow, kind) that is already listed leaves the global view as it was.
C10_GlobalListsHoldAFlowOnce ==
    [][/\ NoFlowTwice(model')
       /\ \A key \in DOMAIN contact_flows :
             /\ \A a \in RawAttrNames, usage \in {"used", "updated"} :
                   (/\ Listed(model.contactAttributes, stripAttributes(a),
                              KindField(usage), contact_flows[key].Name)
                    /\ UpdateContactAttrUsage(a, key, usage)) => model' = model
             /\ \A f \in FunctionArns :
                   (/\ Listed(model.lambdaFunctions, f, "usedInFlow", contact_flows[key].Name)
                    /\ UpdateLambdaFunctionUsage(f, key)) => model' = model
             /\ \A b \in BotNames :
                   (/\ Listed(model.lexBots, b, "usedInFlow", contact_flows[key].Name)
                    /\ UpdateLexBotUsage(b, key)) => model' = model]_vars

\* more recording calls were made than the global lists hold entries: one
\* of them recorded a flow that was listed already
C10_Witness == nrecs > Cardinality(GlobalEntries) /\ GlobalEntries # {}

\* ------------------------------------------------------- per-flow view claims

\* every flag that the per-flow views of old mark is marked in those of new
StaysSet(old, new) ==
    /\ \A a \in DOMAIN old.contactAttributes, kind \in {"usedInFlow", "updatedInFlow"} :
          old.contactAttributes[a][kind] => Flagged(new.contactAttributes, a, kind)
    /\ \A f \in DOMAIN old.lambdaFunctions :
          old.lambdaFunctions[f].usedInFlow => Flagged(new.lambdaFunctions, f, "usedInFlow")
    /\ \A b \in DOMAIN old.lexBots :
          old.lexBots[b].usedInFlow => Flagged(new.lexBots, b, "usedInFlow")

NoMatches(content) == content.entries = <<>>

\* C12 as stated: process_flow on content without any match for the probed
\* fields, a document without Metadata.ActionMetadata included, completes and
\* adds nothing but the flow's own node.
C12_Original ==
    [][\A name \in FlowNames, content \in Contents :
          (NoMatches(content) /\ ProcessFlow(name, content)) =>
              /\ ret' = Returned("process_flow", <<>>)
              /\ nodes' = add_node(graph, name).nodes
              /\ adj' = adj]_vars

\* ------------------------------------------------------ graph-growth claims

\* C20: the dependency graph only grows.  Every call keeps the node order and
\* every adjacency list as a prefix of the new one, so every reference ever
\* added is an edge in every later state, whatever the later documents of its
\* source name, and get_dependencies lists its target in dependsOn.
C20_GraphOnlyGrows ==
    /\ [](refs \subseteq Edges)
    /\ [](GotDependencies =>
             \A e \in refs : \E i \in 1..Len(ret.value) :
                 ret.value[i].name = e[1] /\ InSeq(e[2], ret.value[i].dependsOn))
    /\ [][/\ IsPrefix(nodes, nodes')
          /\ \A n \in FlowNames : IsPrefix(adj[n], adj'[n])]_vars

\* Only documents of Main were processed and they made two add_edge calls.
\* One document probes the flow fields before the module field, so the module
\* Greeting precedes the flow Billing only when a first document named
\* Greeting and a later one named Billing and no longer Greeting: the edge to
\* Greeting is still there and get_dependencies has reported it.
C20_Witness ==
    /\ passed = {"Main"}
    /\ nadds = 2
    /\ adj["Main"] = <<"Greeting", "Billing">>
    /\ GotDependencies
    /\ \E i \in 1..Len(ret.value) :
          ret.value[i].name = "Main" /\ ret.value[i].dependsOn = <<"Greeting", "Billing">>

\* ---------------------------------------------------- attribute-name claims

\* a name with its leading addressing prefix, if it has one, taken off
WithoutLeadingPrefix(contactAttrName) ==
    IF contactAttrName # <<>> /\ Head(contactAttrName) = Prefix
    THEN Tail(contactAttrName) ELSE contactAttrName

\* C19 as stated: a recording call files the attribute under its name with
\* the leading "$.Attributes." taken off and nothing else altered, in the
\* global and in the per-flow view, so a name that does not start with the
\* prefix is filed as it is.
C19_Original ==
    [][\A a \in RawAttrNames, key \in DOMAIN contact_flows, usage \in {"used", "updated"} :
          UpdateContactAttrUsage(a, key, usage) =>
              /\ Listed(model'.contactAttributes, WithoutLeadingPrefix(a),
                        KindField(usage), contact_flows[key].Name)
              /\ Flagged(contact_flows'[key].contactAttributes,
                         WithoutLeadingPrefix(a), KindField(usage))]_vars

\* ------------------------------------------------------ action-graph claims

\* the registered flows whose processing came through: they carry an export
BuiltFlows == {key \in DOMAIN contact_flows : "graphAsDot" \in DOMAIN contact_flows[key]}

ExportOf(key) == contact_flows[key].graphAsDot

ErrorsOf(d) == IF "Errors" \in DOMAIN d.Transitions THEN d.Transitions.Errors ELSE <<>>

ConditionsOf(d) ==
    IF "Conditions" \in DOMAIN d.Transitions THEN d.Transitions.Conditions ELSE <<>>

\* the flows that the step has registered anew or changed
Processed(key) ==
    /\ key \in DOMAIN contact_flows'
    /\ key \in DOMAIN contact_flows => contact_flows'[key] # contact_flows[key]

\* C13: in the graph of every flow processed without failure, the error
\* edges that leave an action are, entry by entry, the entries of the action's
\* Transitions.Errors, whatever their error type: each goes to the entry's
\* NextAction, is marked isError and has the entry's ErrorType as type and label.
C13_OneErrorEdgePerEntry ==
    \A key \in BuiltFlows :
        LET g == ExportOf(key)
        IN  \A i \in 1..Len(g.nodes) :
                LET d == g.nodes[i].data
                    out == SelectSeq(g.edges,
                                     LAMBDA e : e.u = d.Identifier /\ e.isError = "True")
                IN  /\ Len(out) = Len(ErrorsOf(d))
                    /\ \A j \in 1..Len(out) :
                          /\ out[j].v = ErrorsOf(d)[j].NextAction
                          /\ out[j].type = ErrorsOf(d)[j].ErrorType
                          /\ out[j].label = ErrorsOf(d)[j].ErrorType

\* a flow of two actions, the first leading to the second by default and the
\* second with two error transitions of different types: its graph has
\* exactly one default edge and two error edges
C13_Witness ==
    \E key \in BuiltFlows :
        LET g == ExportOf(key)
        IN  /\ Len(g.nodes) = 2
            /\ Len(g.edges) = 3
            /\ g.edges[1].type = "Default"
            /\ g.edges[1].u = ActionId(1) /\ g.edges[1].v = ActionId(2)
            /\ \A i \in 2..3 : g.edges[i].u = ActionId(2) /\ g.edges[i].isError = "True"
            /\ {g.edges[2].type, g.edges[3].type} = ErrorTypes

\* C14: in the graph of every flow processed without failure, an action has
\* a default edge exactly when its Transitions name a NextAction and its type
\* is neither Compare nor GetParticipantInput; the edge is single, leads to
\* that NextAction and is no error edge.
C14_DefaultEdgeUnlessBranching ==
    \A key \in BuiltFlows :
        LET g == ExportOf(key)
        IN  \A i \in 1..Len(g.nodes) :
                LET d == g.nodes[i].data
                    out == SelectSeq(g.edges,
                                     LAMBDA e : e.u = d.Identifier /\ e.type = "Default")
                IN  IF /\ "NextAction" \in DOMAIN d.Transitions
                       /\ d.Type \notin {"Compare", "GetParticipantInput"}
                    THEN /\ Len(out) = 1
                         /\ out[1].v = d.Transitions.NextAction
                         /\ out[1].isError = "False"
                    ELSE out = <<>>

\* one flow has a Compare or GetParticipantInput action that names a
\* NextAction, another has an action with a default edge
C14_Witness ==
    /\ \E key \in BuiltFlows :
          \E i \in 1..Len(ExportOf(key).nodes) :
              /\ ExportOf(key).nodes[i].data.Type \in {"Compare", "GetParticipantInput"}
              /\ "NextAction" \in DOMAIN ExportOf(key).nodes[i].data.Transitions
    /\ \E key \in BuiltFlows :
          \E i \in 1..Len(ExportOf(key).edges) : ExportOf(key).edges[i].type = "Default"

\* the InvokeFlowModule labels of an export, read through the table idmap
LabelsResolved(g, idmap) ==
    \A i \in 1..Len(g.nodes) :
        LET d == g.nodes[i].data
        IN  d.Type = "InvokeFlowModule" =>
                g.nodes[i].label =
                    <<d.Type, "\n",
                      IF d.Parameters.FlowModuleId \in DOMAIN idmap
                      THEN idmap[d.Parameters.FlowModuleId]
                      ELSE d.Parameters.FlowModuleId>>

\* C15: processing a flow leaves its Id mapped to its Name, whatever the Id
\* was mapped to before, and a document with an InvokeFlowModule action is
\* processed without failure on that account: the label carries the name the
\* table holds for the FlowModuleId at that moment, the identifier itself if
\* it holds none.
C15_LastWriteWinsAndLabelResolves ==
    [][\A key \in FlowKeys :
          Processed(key) =>
              /\ contact_flows'[key].Id \in DOMAIN resourceIdNameMap'
              /\ resourceIdNameMap'[contact_flows'[key].Id] = contact_flows'[key].Name
              /\ \A i \in DOMAIN resourceIdNameMap :
                    i # contact_flows'[key].Id =>
                        /\ i \in DOMAIN resourceIdNameMap'
                        /\ resourceIdNameMap'[i] = resourceIdNameMap[i]
              /\ "graphAsDot" \in DOMAIN contact_flows'[key] =>
                    LabelsResolved(contact_flows'[key].graphAsDot, resourceIdNameMap')]_vars

InvokeLabels(key) ==
    {ExportOf(key).nodes[i].label[3] :
        i \in {j \in 1..Len(ExportOf(key).nodes) :
                  ExportOf(key).nodes[j].data.Type = "InvokeFlowModule"}}

\* id-1 was registered for Main and then for Billing; one flow was labelled
\* while the table held no name for id-1, one while it held Main and one
\* when it held Billing
C15_Witness ==
    /\ "id-1" \in DOMAIN resourceIdNameMap
    /\ resourceIdNameMap["id-1"] = "Billing"
    /\ \E k1, k2, k3 \in BuiltFlows :
          /\ InvokeLabels(k1) = {"id-1"}
          /\ InvokeLabels(k2) = {"Main"} /\ contact_flows[k2].Id = "id-1"
          /\ InvokeLabels(k3) = {"Billing"}

\* the types that the claim lists as terminal
ListedEndTypes ==
    {"TransferContactToQueue", "EndFlowExecution", "DisconnectParticipant",
     "CreateCallbackContact"}

\* C16 as stated: processing a flow appends to endNodeIds the identifier of
\* every action of one of the four listed terminal types, and of no other.
C16_Original ==
    [][\A key \in FlowKeys :
          (Processed(key) /\ "graphAsDot" \in DOMAIN contact_flows'[key]) =>
              LET g == contact_flows'[key].graphAsDot
                  ends == SelectSeq(g.nodes, LAMBDA n : n.data.Type \in ListedEndTypes)
              IN  endNodeIds' = endNodeIds \o [i \in 1..Len(ends) |-> ends[i].id]]_vars

\* C17 as stated: a flow processed through the Ghostwriter of another session
\* leaves everything this session's Ghostwriter reads or writes as it was,
\* the terminal-node list included.
C17_Original ==
    [][\A head \in FlowHeads, actionsList \in GraphDocs :
          OtherSessionProcessFlow(head, actionsList) =>
              /\ endNodeIds' = endNodeIds
              /\ UNCHANGED <<resourceIdNameMap, contact_flows, model>>]_vars

\* C18: in the graph of every flow processed without failure, every
\* transition of an action is an edge of its own: the edges that leave an
\* action are as many as its transition entries (its NextAction not counted
\* for Compare and GetParticipantInput), no two edges of one pair of actions
\* share their key, and the edges of type Condition are, entry by entry, the
\* entries of Transitions.Conditions: to the entry's NextAction, no error
\* edge, carrying the entry's Condition and "<Operator> <Operands>" as label.
C18_OneEdgePerTransition ==
    \A key \in BuiltFlows :
        LET g == ExportOf(key)
        IN  /\ \A i, j \in 1..Len(g.edges) :
                  (/\ g.edges[i].u = g.edges[j].u
                   /\ g.edges[i].v = g.edges[j].v
                   /\ g.edges[i].key = g.edges[j].key) => i = j
            /\ \A i \in 1..Len(g.nodes) :
                  LET d == g.nodes[i].data
                      out == SelectSeq(g.edges, LAMBDA e : e.u = d.Identifier)
                      conds == SelectSeq(out, LAMBDA e : e.type = "Condition")
                      defaults == IF /\ "NextAction" \in DOMAIN d.Transitions
                                     /\ d.Type \notin {"Compare", "GetParticipantInput"}
                                  THEN 1 ELSE 0
                  IN  /\ Len(out) = defaults + Len(ErrorsOf(d)) + Len(ConditionsOf(d))
                      /\ Len(conds) = Len(ConditionsOf(d))
                      /\ \A j \in 1..Len(conds) :
                            /\ conds[j].v = ConditionsOf(d)[j].NextAction
                            /\ conds[j].isError = "False"
                            /\ conds[j].condition = ConditionsOf(d)[j].Condition
                            /\ conds[j].label =
                                  <<ConditionsOf(d)[j].Condition.Operator, " ",
                                    ConditionsOf(d)[j].Condition.Operands>>

\* three edges join one pair of actions, two of them of the same kind and
\* with the same attributes
C18_Witness ==
    \E key \in BuiltFlows :
        LET g == ExportOf(key)
        IN  \E i, j, k \in 1..Len(g.edges) :
                /\ i < j /\ j < k
                /\ g.edges[i].u = g.edges[j].u /\ g.edges[j].u = g.edges[k].u
                /\ g.edges[i].v = g.edges[j].v /\ g.edges[j].v = g.edges[k].v
                /\ g.edges[i].type = "Default"
                /\ g.edges[j].type = g.edges[k].type
                /\ g.edges[j].label = g.edges[k].label

\* the flows whose export has an InvokeFlowModule label that is the raw
\* identifier although the table now holds a name for it
StaleFlows ==
    {key \in BuiltFlows :
        \E i \in 1..Len(ExportOf(key).nodes) :
            LET n == ExportOf(key).nodes[i]
            IN  /\ "data" \in DOMAIN n
                /\ n.data.Type = "InvokeFlowModule"
                /\ n.data.Parameters.FlowModuleId \in DOMAIN resourceIdNameMap
                /\ n.label = <<n.data.Type, "\n", n.data.Parameters.FlowModuleId>>}

\* C21: the label of an InvokeFlowModule action is fixed when its flow is
\* processed: it is read through the table as it is at that moment, and no
\* later step changes the export of a flow other than by processing a
\* document under that flow's own name and type. A module registered after
\* the flow leaves the raw identifier in the flow's export; registered before
\* it, its name is the label.
C21_LabelFixedWhenProcessed ==
    [][/\ \A key \in BuiltFlows :
             \/ key \in BuiltFlows' /\ ExportOf(key)' = ExportOf(key)
             \/ \E head \in FlowHeads :
                   /\ flowNameType(head) = key
                   /\ \E actionsList \in GraphDocs : GhostProcessFlow(head, actionsList)
       /\ \A key \in BuiltFlows' :
             (key \notin BuiltFlows \/ ExportOf(key)' # ExportOf(key)) =>
                 LabelsResolved(ExportOf(key)', resourceIdNameMap')]_vars

\* the module flow has Id id-2 and invokes id-1; it was processed before any
\* flow with Id id-1 and carries the raw identifier, while the flow Billing
\* with Id id-1, processed afterwards, is labelled with its own name
C21_Witness ==
    /\ "id-1" \in DOMAIN resourceIdNameMap
    /\ resourceIdNameMap["id-1"] = "Billing"
    /\ \E k1, k2 \in BuiltFlows :
          /\ k1 \in StaleFlows /\ contact_flows[k1].Id = "id-2"
          /\ InvokeLabels(k1) = {"id-1"}
          /\ k2 \notin StaleFlows /\ contact_flows[k2].Id = "id-1"
          /\ InvokeLabels(k2) = {"Billing"}

=============================================================================
